---- MODULE Spec2Model ----
(***************************************************************************)
(* RehabRight: the exercise analysis engine (ExerciseAnalyzer in           *)
(* src/lib/exercise-rules.ts, calculateAngle and getKeyLandmarks in        *)
(* src/lib/pose-detection.ts) and the LiveSession page that drives it.     *)
(*                                                                         *)
(* Numbers.  Landmark coordinates are integers in units of 0.001 of the    *)
(* normalised image (0.02 is 20, 0.05 is 50); every x coordinate is even,  *)
(* so the midpoints of the code are exact.  Angles are integers in units   *)
(* of half a degree (HalfDeg(120) is 120 degrees), so the mean of two      *)
(* whole-degree angles is exact.  Math.atan2 is tabulated, to the nearest  *)
(* whole degree, for the difference vectors of the frames below.  The z    *)
(* coordinate and the visibility of a landmark are left out: the analysis  *)
(* reads z into two midpoints it never uses and never reads visibility.    *)
(* RepData.timestamp (Date.now()) is left out as well.                     *)
(***************************************************************************)
EXTENDS Integers, Sequences, FiniteSets, TLC

VARIABLES
  analyzer,    \* the ExerciseAnalyzer instance: its five private fields
  outcome,     \* how the last analyzer call ended: "none", "returned", "TypeError"
  result,      \* the value the last analyze call returned
  op,          \* the last operation performed
  squatSeq,    \* observer: progress of an ">=120, <120.., >=120" squat frame sequence
  abdSeq,      \* observer: progress of a ">75, >=30.., <30" abduction frame sequence
  raisedSince, \* observer: an abduction frame with average > 75 was seen since
               \* the last counted rep, reset() or construction
  scenario     \* observer: frames of the 100, 70, 150 squat scenario fed so far
               \* to a fresh analyzer

analyzerVars == <<analyzer, outcome, result, op, squatSeq, abdSeq, raisedSince, scenario>>

VARIABLES
  store,              \* usePoseStore: the fields the LiveSession page reads
  isProcessing,       \* LiveSession: the isProcessing React state
  effect,             \* LiveSession: dependencies seen by the last run of the
                      \* detection-loop effect, and whether it left a cleanup
  animationFrameRef,  \* LiveSession: animationFrameRef.current (0: not set)
  pending,            \* requestAnimationFrame callbacks not yet run
  inflight,           \* detectPose invocations awaiting the pose detector
  nextHandle,         \* the next requestAnimationFrame handle
  analysedInSession   \* observer: a frame was analysed since the exercise was selected

liveVars == <<store, isProcessing, effect, animationFrameRef, pending, inflight,
              nextHandle, analysedInSession>>

VARIABLES
  fn,       \* the function last applied on its own ("none" before any)
  args,     \* the arguments it was applied to
  value,    \* what it returned
  held      \* what the array a caller got from getRepData() is now:
            \* "none" (no call yet), "log" (the analyzer's own repData array)
            \* or "detached" (the array reset() has since replaced)

pureVars == <<fn, args, value>>

auxVars == <<fn, args, value, held>>

vars == <<analyzerVars, liveVars, auxVars>>

(* ------------------------------ bounds -------------------------------- *)
MaxFrames == 3   \* analyzeSquat calls (frameCount) explored per analyzer life
MaxReps == 2     \* repetitions (repCount) explored per analyzer life
MaxHandles == 4  \* requestAnimationFrame calls explored per page life
MaxMessages == 4 \* length of the feedback lists sorted on their own
Oscillations == 2 \* swings across a threshold in a jitter frame sequence

(* --------------------------- numeric helpers -------------------------- *)
HalfDeg(d) == 2 * d
Abs(n) == IF n < 0 THEN 0 - n ELSE n
Min2(a, b) == IF a < b THEN a ELSE b
Max2(a, b) == IF a > b THEN a ELSE b

\* Math.atan2(dy, dx) in whole degrees, tabulated for the vectors that occur.
Atan2Table ==
  <<-702, -280>> :> -112 @@
  <<-600, -140>> :> -103 @@
  <<-570, -170>> :> -107 @@
  <<-570, -120>> :> -102 @@
  <<-570, -118>> :> -102 @@
  <<-488, -194>> :> -112 @@
  <<-477, -222>> :> -115 @@
  <<-427, -288>> :> -124 @@
  <<-406, -112>> :> -105 @@
  <<-406, -60>> :> -98 @@
  <<-320, 0>> :> -90 @@
  <<-280, 0>> :> -90 @@
  <<-194, -112>> :> -120 @@
  <<-194, 112>> :> -60 @@
  <<-173, -288>> :> -149 @@
  <<-173, 288>> :> -31 @@
  <<-123, -222>> :> -151 @@
  <<-123, 222>> :> -29 @@
  <<-112, -194>> :> -150 @@
  <<-112, 194>> :> -30 @@
  <<-102, -280>> :> -160 @@
  <<-82, -142>> :> -150 @@
  <<-82, 142>> :> -30 @@
  <<-54, -188>> :> -164 @@
  <<-30, -170>> :> -170 @@
  <<-30, 170>> :> -10 @@
  <<-18, -102>> :> -170 @@
  <<0, -140>> :> 180 @@
  <<0, -100>> :> 180 @@
  <<0, 100>> :> 0 @@
  <<0, 140>> :> 0 @@
  <<26, -104>> :> 166 @@
  <<26, 104>> :> 14 @@
  <<30, -170>> :> 170 @@
  <<30, -112>> :> 165 @@
  <<30, 112>> :> 15 @@
  <<72, -72>> :> 135 @@
  <<72, 72>> :> 45 @@
  <<82, -142>> :> 150 @@
  <<82, 142>> :> 30 @@
  <<100, -52>> :> 117 @@
  <<100, -50>> :> 117 @@
  <<100, 0>> :> 90 @@
  <<102, -280>> :> 160 @@
  <<102, 280>> :> 20 @@
  <<112, -194>> :> 150 @@
  <<123, -222>> :> 151 @@
  <<142, -82>> :> 120 @@
  <<142, 82>> :> 60 @@
  <<166, -92>> :> 119 @@
  <<166, 92>> :> 61 @@
  <<173, -288>> :> 149 @@
  <<194, -112>> :> 120 @@
  <<200, -22>> :> 96 @@
  <<200, -20>> :> 96 @@
  <<200, 0>> :> 90 @@
  <<200, 20>> :> 84 @@
  <<200, 22>> :> 84 @@
  <<280, 0>> :> 90 @@
  <<320, 0>> :> 90 @@
  <<406, -164>> :> 112 @@
  <<406, -112>> :> 105 @@
  <<406, 60>> :> 82 @@
  <<406, 112>> :> 75 @@
  <<427, -288>> :> 124 @@
  <<427, 288>> :> 56 @@
  <<477, -222>> :> 115 @@
  <<477, 222>> :> 65 @@
  <<488, -194>> :> 112 @@
  <<488, 194>> :> 68 @@
  <<570, -222>> :> 111 @@
  <<570, -220>> :> 111 @@
  <<570, -170>> :> 107 @@
  <<570, 118>> :> 78 @@
  <<570, 120>> :> 78 @@
  <<570, 170>> :> 73 @@
  <<600, -140>> :> 103 @@
  <<600, 140>> :> 77 @@
  <<702, -280>> :> 112 @@
  <<702, 280>> :> 68 @@
  \* the compass directions around a vertex, and atan2(0, 0)
  <<-1000, -1000>> :> -135 @@
  <<-1000, 0>> :> -90 @@
  <<-1000, 1000>> :> -45 @@
  <<0, -1000>> :> 180 @@
  <<0, 0>> :> 0 @@
  <<0, 1000>> :> 0 @@
  <<1000, -1000>> :> 135 @@
  <<1000, 0>> :> 90 @@
  <<1000, 1000>> :> 45 @@
  <<-2000, -2000>> :> -135 @@
  <<-2000, 0>> :> -90 @@
  <<-2000, 2000>> :> -45 @@
  <<0, -2000>> :> 180 @@
  <<0, 2000>> :> 0 @@
  <<2000, -2000>> :> 135 @@
  <<2000, 0>> :> 90 @@
  <<2000, 2000>> :> 45

Atan2(dy, dx) == Atan2Table[<<dy, dx>>]

calculateAngleUnfolded(point1, point2, point3) ==
  Abs(HalfDeg(Atan2(point3.y - point2.y, point3.x - point2.x)
              - Atan2(point1.y - point2.y, point1.x - point2.x)))

\* calculateAngle: |atan2(p3 - p2) - atan2(p1 - p2)| in degrees, folded at 180.
calculateAngle(point1, point2, point3) ==
  LET radians == Atan2(point3.y - point2.y, point3.x - point2.x)
                 - Atan2(point1.y - point2.y, point1.x - point2.x)
      angle == Abs(HalfDeg(radians))
  IN IF angle > HalfDeg(180) THEN HalfDeg(360) - angle ELSE angle

\* An absent slot of the landmark list (JavaScript undefined).
Undefined == [undefined |-> TRUE]
IsUndefined(p) == "undefined" \in DOMAIN p
Landmark(x, y) == [x |-> x, y |-> y]

getKeyLandmarks(landmarks) ==
  [leftShoulder |-> landmarks[11], rightShoulder |-> landmarks[12],
   leftElbow |-> landmarks[13], rightElbow |-> landmarks[14],
   leftWrist |-> landmarks[15], rightWrist |-> landmarks[16],
   leftHip |-> landmarks[23], rightHip |-> landmarks[24],
   leftKnee |-> landmarks[25], rightKnee |-> landmarks[26],
   leftAnkle |-> landmarks[27], rightAnkle |-> landmarks[28],
   nose |-> landmarks[0], leftEye |-> landmarks[1], rightEye |-> landmarks[2]]

(* ------------------------- feedback list helpers ---------------------- *)
FeedbackMessage(type, message, priority) ==
  [type |-> type, message |-> message, priority |-> priority]

\* Array.prototype.sort with (a, b) => b.priority - a.priority: a stable sort
\* by descending priority, here as a stable insertion sort.
InsertBeforeEqual(sorted, m) ==
  LET k == Cardinality({i \in 1..Len(sorted) : sorted[i].priority > m.priority})
  IN SubSeq(sorted, 1, k) \o <<m>> \o SubSeq(sorted, k + 1, Len(sorted))

InsertByPriority(sorted, m) ==
  LET k == Cardinality({i \in 1..Len(sorted) : sorted[i].priority >= m.priority})
  IN SubSeq(sorted, 1, k) \o <<m>> \o SubSeq(sorted, k + 1, Len(sorted))

RECURSIVE sortByPriority(_)
sortByPriority(feedback) ==
  IF feedback = <<>> THEN <<>>
  ELSE InsertByPriority(sortByPriority(SubSeq(feedback, 1, Len(feedback) - 1)),
                        feedback[Len(feedback)])

\* slice(0, 2)
slice2(feedback) == SubSeq(feedback, 1, Min2(2, Len(feedback)))

(* ------------------------------ the analyzer -------------------------- *)
\* new ExerciseAnalyzer(): the field initialisers.
NewAnalyzer ==
  [repCount |-> 0, currentScore |-> 0, lastPosition |-> "up",
   repData |-> <<>>, frameCount |-> 0]

ResetAnalyzerKeepsLog(an) ==
  [an EXCEPT !.repCount = 0, !.currentScore = 0, !.lastPosition = "up",
             !.frameCount = 0]

\* reset() assigns the same five values.
ResetAnalyzer(an) ==
  [an EXCEPT !.repCount = 0, !.currentScore = 0, !.lastPosition = "up",
             !.repData = <<>>, !.frameCount = 0]

NoResult ==
  [score |-> 0, feedback |-> <<>>, repCount |-> 0, isInPosition |-> FALSE,
   angles |-> [knee |-> 0, hip |-> 0, shoulder |-> 0]]

(* ------------------------------ analyzeSquat -------------------------- *)
\* Reading a coordinate of an undefined keypoint raises a TypeError: inside
\* calculateAngle for the three knee/hip triples, at the midpoints for the
\* right shoulder.  All of these reads precede the rep counting.
SquatThrows(kl) ==
  \/ IsUndefined(kl.leftHip) \/ IsUndefined(kl.leftKnee) \/ IsUndefined(kl.leftAnkle)
  \/ IsUndefined(kl.rightHip) \/ IsUndefined(kl.rightKnee) \/ IsUndefined(kl.rightAnkle)
  \/ IsUndefined(kl.leftShoulder) \/ IsUndefined(kl.rightShoulder)

isInBottomPosition(kneeAngle) == kneeAngle < HalfDeg(120)

hasGoodDepthBelow150(kneeAngle) == kneeAngle < HalfDeg(150)

hasGoodDepth(kneeAngle) == kneeAngle < HalfDeg(90)

leftValgus(kl) == kl.leftKnee.x < kl.leftAnkle.x - 20

rightValgus(kl) == kl.rightKnee.x > kl.rightAnkle.x + 20

torsoLean(kl) ==
  Abs((kl.leftShoulder.x + kl.rightShoulder.x) \div 2
      - (kl.leftHip.x + kl.rightHip.x) \div 2)

excessiveLeanAtThreshold(kl) == torsoLean(kl) >= 50

excessiveLean(kl) == torsoLean(kl) > 50

\* The values analyzeSquat derives from the keypoints before it touches the
\* rep counter (its local constants of the same names).
SquatSignals(kl) ==
  [kneeAngle |-> Min2(calculateAngle(kl.leftHip, kl.leftKnee, kl.leftAnkle),
                      calculateAngle(kl.rightHip, kl.rightKnee, kl.rightAnkle)),
   hipAngle |-> calculateAngle(kl.leftShoulder, kl.leftHip, kl.leftKnee),
   valgus |-> leftValgus(kl) \/ rightValgus(kl),
   excessiveLean |-> excessiveLean(kl)]

\* Rep counting: the two branches of the if / else if.
SquatGoesDown(inBottom, lastPosition) == inBottom /\ lastPosition = "up"

SquatCompletesRepNoPhase(inBottom, lastPosition) == ~inBottom

SquatCompletesRep(inBottom, lastPosition) == ~inBottom /\ lastPosition = "down"

SquatRepFlagsNoLean(s) ==
  (IF ~hasGoodDepth(s.kneeAngle) THEN <<"shallow_squat">> ELSE <<>>)
  \o (IF s.valgus THEN <<"knee_valgus">> ELSE <<>>)

SquatRepFlags(s) ==
  (IF ~hasGoodDepth(s.kneeAngle) THEN <<"shallow_squat">> ELSE <<>>)
  \o (IF s.valgus THEN <<"knee_valgus">> ELSE <<>>)
  \o (IF s.excessiveLean THEN <<"excessive_lean">> ELSE <<>>)

\* The RepData stored on a completed rep; score is this.currentScore as it is
\* at that line, before the frame's own score is assigned.
SquatRep(an, s) ==
  [repIndex |-> an.repCount,
   angles |-> [knee |-> s.kneeAngle, hip |-> s.hipAngle, shoulder |-> 0],
   flags |-> SquatRepFlags(s),
   score |-> an.currentScore]

SquatCompleteRepAtFront(counted, s) ==
  [counted EXCEPT !.repData = <<SquatRep(counted, s)>> \o @]

SquatCompleteRep(counted, s) ==
  [counted EXCEPT !.repData = Append(@, SquatRep(counted, s))]

SquatCountRep(an, s) ==
  IF SquatGoesDown(isInBottomPosition(s.kneeAngle), an.lastPosition)
  THEN [an EXCEPT !.lastPosition = "down"]
  ELSE IF SquatCompletesRep(isInBottomPosition(s.kneeAngle), an.lastPosition)
  THEN SquatCompleteRep([an EXCEPT !.repCount = @ + 1, !.lastPosition = "up"], s)
  ELSE an

SquatFormFeedbackNoPraise(s) ==
  (IF isInBottomPosition(s.kneeAngle) /\ ~hasGoodDepth(s.kneeAngle)
   THEN <<FeedbackMessage("warning",
            "Go a bit deeper - aim for thighs parallel to floor", 3)>>
   ELSE <<>>)
  \o (IF s.valgus
      THEN <<FeedbackMessage("error",
               "Push your knees out - don't let them cave in", 4)>>
      ELSE <<>>)
  \o (IF s.excessiveLean
      THEN <<FeedbackMessage("warning", "Keep your chest up and back straight", 2)>>
      ELSE <<>>)

\* Feedback generated for the frame, in push order.
SquatFormFeedback(s) ==
  (IF isInBottomPosition(s.kneeAngle)
   THEN IF ~hasGoodDepth(s.kneeAngle)
        THEN <<FeedbackMessage("warning",
                 "Go a bit deeper - aim for thighs parallel to floor", 3)>>
        ELSE <<FeedbackMessage("success", "Great depth!", 1)>>
   ELSE <<>>)
  \o (IF s.valgus
      THEN <<FeedbackMessage("error",
               "Push your knees out - don't let them cave in", 4)>>
      ELSE <<>>)
  \o (IF s.excessiveLean
      THEN <<FeedbackMessage("warning", "Keep your chest up and back straight", 2)>>
      ELSE <<>>)

SquatPeriodicFeedbackAlways(feedback, s, frameCount) ==
  IF isInBottomPosition(s.kneeAngle)
  THEN Append(feedback, FeedbackMessage("info", "Looking good! Keep it controlled", 0))
  ELSE feedback

\* Frame rate limiting: frameCount is the counter after this frame's increment.
SquatPeriodicFeedback(feedback, s, frameCount) ==
  IF frameCount % 30 = 0 /\ Len(feedback) = 0 /\ isInBottomPosition(s.kneeAngle)
  THEN Append(feedback, FeedbackMessage("info", "Looking good! Keep it controlled", 0))
  ELSE feedback

SquatFeedback(s, frameCount) ==
  SquatPeriodicFeedback(SquatFormFeedback(s), s, frameCount)

SquatValgusDeductionAdded(s) == IF s.valgus THEN 0 - 20 ELSE 0

SquatValgusDeduction(s) == IF s.valgus THEN 20 ELSE 0

SquatScore(s) ==
  100 - (IF isInBottomPosition(s.kneeAngle) /\ ~hasGoodDepth(s.kneeAngle) THEN 15 ELSE 0)
      - SquatValgusDeduction(s)
      - (IF s.excessiveLean THEN 10 ELSE 0)

SquatReturn(final, s) ==
  [analyzer |-> final,
   outcome |-> "returned",
   result |-> [score |-> final.currentScore,
               feedback |-> slice2(sortByPriority(SquatFeedback(s, final.frameCount))),
               repCount |-> final.repCount,
               isInPosition |-> isInBottomPosition(s.kneeAngle),
               angles |-> [knee |-> s.kneeAngle, hip |-> s.hipAngle, shoulder |-> 0]]]

SquatFrame(ticked, s) ==
  SquatReturn([SquatCountRep(ticked, s) EXCEPT !.currentScore = Max2(0, SquatScore(s))], s)

SquatBodyCountsBeforeLean(ticked, kl) ==
  IF SquatThrows(kl)
  THEN [analyzer |->
          IF SquatThrows([kl EXCEPT !.rightShoulder = kl.leftShoulder]) THEN ticked
          ELSE SquatCountRep(ticked,
                 SquatSignals([kl EXCEPT !.rightShoulder = kl.leftShoulder])),
        outcome |-> "TypeError", result |-> NoResult]
  ELSE SquatFrame(ticked, SquatSignals(kl))

SquatBody(ticked, kl) ==
  IF SquatThrows(kl)
  THEN [analyzer |-> ticked, outcome |-> "TypeError", result |-> NoResult]
  ELSE SquatFrame(ticked, SquatSignals(kl))

\* analyzeSquat(landmarks, config): the analyzer after the call, how the call
\* ended and what it returned.  frameCount++ comes first; config is never read.
analyzeSquat(an, landmarks) ==
  SquatBody([an EXCEPT !.frameCount = @ + 1], getKeyLandmarks(landmarks))

(* ------------------------ analyzeShoulderAbduction -------------------- *)
\* All coordinate reads (two calculateAngle calls, then the elbow and
\* shoulder y values) precede the rep counting.
AbductionThrows(kl) ==
  \/ IsUndefined(kl.leftElbow) \/ IsUndefined(kl.leftShoulder) \/ IsUndefined(kl.leftHip)
  \/ IsUndefined(kl.rightElbow) \/ IsUndefined(kl.rightShoulder) \/ IsUndefined(kl.rightHip)

targetAngle == HalfDeg(90)

leftHikingAtLevel(kl) == kl.leftElbow.y <= kl.leftShoulder.y

leftHiking(kl) == kl.leftElbow.y < kl.leftShoulder.y

rightHiking(kl) == kl.rightElbow.y < kl.rightShoulder.y

\* The values analyzeShoulderAbduction derives from the keypoints before it
\* touches the rep counter (its local constants of the same names).
AbductionAngles(leftShoulderAngle, rightShoulderAngle, hiking) ==
  [avgShoulderAngle |-> (leftShoulderAngle + rightShoulderAngle) \div 2,
   shoulderSymmetry |-> Abs(leftShoulderAngle - rightShoulderAngle),
   hiking |-> hiking]

AbductionSignals(kl) ==
  AbductionAngles(calculateAngle(kl.leftElbow, kl.leftShoulder, kl.leftHip),
                  calculateAngle(kl.rightElbow, kl.rightShoulder, kl.rightHip),
                  leftHiking(kl) \/ rightHiking(kl))

angleDeviation(s) == Abs(s.avgShoulderAngle - targetAngle)

isInTargetRange(s) == angleDeviation(s) <= HalfDeg(10)

isInPosition(s) == s.avgShoulderAngle > HalfDeg(45)

AbductionRaisesAtTarget(s, lastPosition) ==
  isInPosition(s) /\ s.avgShoulderAngle > targetAngle /\ lastPosition = "down"

AbductionRaises(s, lastPosition) ==
  isInPosition(s) /\ s.avgShoulderAngle > HalfDeg(75) /\ lastPosition = "down"

AbductionCountsRepOutOfPosition(s, lastPosition) ==
  ~isInPosition(s) /\ lastPosition = "up"

AbductionCountsRep(s, lastPosition) ==
  ~isInPosition(s) /\ s.avgShoulderAngle < HalfDeg(30) /\ lastPosition = "up"

AbductionCountRepKeepsPhase(an, s) ==
  IF AbductionRaises(s, an.lastPosition)
  THEN [an EXCEPT !.lastPosition = "up"]
  ELSE IF AbductionCountsRep(s, an.lastPosition)
  THEN [an EXCEPT !.repCount = @ + 1]
  ELSE an

AbductionCountRep(an, s) ==
  IF AbductionRaises(s, an.lastPosition)
  THEN [an EXCEPT !.lastPosition = "up"]
  ELSE IF AbductionCountsRep(s, an.lastPosition)
  THEN [an EXCEPT !.repCount = @ + 1, !.lastPosition = "down"]
  ELSE an

AbductionFeedback(s) ==
  (IF angleDeviation(s) > HalfDeg(15)
   THEN IF s.avgShoulderAngle < targetAngle - HalfDeg(15)
        THEN <<FeedbackMessage("warning",
                 "Raise your arms higher - aim for 90 degrees", 3)>>
        ELSE IF s.avgShoulderAngle > targetAngle + HalfDeg(15)
        THEN <<FeedbackMessage("warning",
                 "Lower your arms slightly - aim for 90 degrees", 3)>>
        ELSE <<>>
   ELSE <<>>)
  \o (IF s.shoulderSymmetry > HalfDeg(15)
      THEN <<FeedbackMessage("error",
               "Keep both arms at the same level for symmetry", 4)>>
      ELSE <<>>)
  \o (IF s.hiking
      THEN <<FeedbackMessage("warning",
               "Relax your shoulders - don't shrug them up", 2)>>
      ELSE <<>>)
  \o (IF isInTargetRange(s) /\ s.shoulderSymmetry <= HalfDeg(10)
      THEN <<FeedbackMessage("success", "Perfect form! Great ROM and symmetry", 1)>>
      ELSE <<>>)

AbductionScore(s) ==
  100 - (IF angleDeviation(s) > HalfDeg(15)
         THEN IF s.avgShoulderAngle < targetAngle - HalfDeg(15) THEN 15
              ELSE IF s.avgShoulderAngle > targetAngle + HalfDeg(15) THEN 10
              ELSE 0
         ELSE 0)
      - (IF s.shoulderSymmetry > HalfDeg(15) THEN 20 ELSE 0)
      - (IF s.hiking THEN 10 ELSE 0)

AbductionReturn(final, s) ==
  [analyzer |-> final,
   outcome |-> "returned",
   result |-> [score |-> final.currentScore,
               feedback |-> slice2(sortByPriority(AbductionFeedback(s))),
               repCount |-> final.repCount,
               isInPosition |-> isInPosition(s),
               angles |-> [knee |-> 0, hip |-> 0, shoulder |-> s.avgShoulderAngle]]]

AbductionFrame(an, s) ==
  AbductionReturn([AbductionCountRep(an, s) EXCEPT
                     !.currentScore = Max2(0, AbductionScore(s))], s)

AbductionBody(an, kl) ==
  IF AbductionThrows(kl)
  THEN [analyzer |-> an, outcome |-> "TypeError", result |-> NoResult]
  ELSE AbductionFrame(an, AbductionSignals(kl))

\* analyzeShoulderAbduction(landmarks, config); config is never read.
analyzeShoulderAbduction(an, landmarks) ==
  AbductionBody(an, getKeyLandmarks(landmarks))

\* getRepData() returns the analyzer's own array.
getRepData(an) == an.repData

(* ------------------------------ input frames -------------------------- *)
\* A frame is the 33-slot landmark list of one detected body.  Standing is a
\* person upright with the arms at the sides; y grows downwards.
Standing ==
  [i \in 0..32 |->
     CASE i = 0 -> Landmark(500, 40)
       [] i = 1 -> Landmark(520, 30)
       [] i = 2 -> Landmark(480, 30)
       [] i = 11 -> Landmark(600, 100)
       [] i = 12 -> Landmark(400, 100)
       [] i = 13 -> Landmark(600, 200)
       [] i = 14 -> Landmark(400, 200)
       [] i = 15 -> Landmark(600, 300)
       [] i = 16 -> Landmark(400, 300)
       [] i = 23 -> Landmark(600, 380)
       [] i = 24 -> Landmark(400, 380)
       [] i = 25 -> Landmark(600, 700)
       [] i = 26 -> Landmark(400, 700)
       [] i = 27 -> Landmark(600, 900)
       [] i = 28 -> Landmark(400, 900)
       [] OTHER -> Landmark(500, 500)]

\* Offset of the hip from the knee that makes a knee angle of `knee` degrees
\* over a vertical shin (left side; the right side is mirrored).
HipOffset(knee) ==
  CASE knee = 180 -> <<0, -320>>
    [] knee = 150 -> <<112, -194>>
    [] knee = 121 -> <<288, -173>>
    [] knee = 120 -> <<194, -112>>
    [] knee = 119 -> <<222, -123>>
    [] knee = 100 -> <<170, -30>>
    [] knee = 90 -> <<140, 0>>
    [] knee = 70 -> <<280, 102>>

\* Offset of the elbow from the shoulder that raises the arm by `arm` degrees
\* from a vertical trunk (left side; the right side is mirrored).
ElbowOffset(arm) ==
  CASE arm = 0 -> <<0, 100>>
    [] arm = 29 -> <<92, 166>>
    [] arm = 30 -> <<82, 142>>
    [] arm = 45 -> <<72, 72>>
    [] arm = 60 -> <<142, 82>>
    [] arm = 75 -> <<112, 30>>
    [] arm = 76 -> <<104, 26>>
    [] arm = 90 -> <<100, 0>>
    [] arm = 100 -> <<102, -18>>
    [] arm = 106 -> <<188, -54>>
    [] arm = 120 -> <<142, -82>>

\* A squat pose: left and right knee angle, x of the left and of the right
\* ankle (600 and 400 when under the knee), sideways shift of both shoulders.
SquatPose(p) ==
  [Standing EXCEPT
     ![23] = Landmark(600 + HipOffset(p[1])[1], 700 + HipOffset(p[1])[2]),
     ![24] = Landmark(400 - HipOffset(p[2])[1], 700 + HipOffset(p[2])[2]),
     ![27] = Landmark(p[3], 900),
     ![28] = Landmark(p[4], 900),
     ![11] = Landmark(600 + p[5], 100),
     ![12] = Landmark(400 + p[5], 100)]

\* An abduction pose: left and right arm angle.
AbductionPose(p) ==
  [Standing EXCEPT
     ![13] = Landmark(600 + ElbowOffset(p[1])[1], 100 + ElbowOffset(p[1])[2]),
     ![14] = Landmark(400 - ElbowOffset(p[2])[1], 100 + ElbowOffset(p[2])[2])]

\* The estimator dropped the point at slot i.
Dropped(landmarks, i) == [landmarks EXCEPT ![i] = Undefined]

SquatPoses ==
  { <<150, 150, 600, 400, 0>>,    \* standing tall
    <<120, 120, 600, 400, 0>>,    \* exactly 120
    <<150, 150, 622, 400, 0>>,    \* standing, left valgus
    <<150, 150, 600, 378, 0>>,    \* standing, right valgus
    <<150, 150, 600, 400, 52>>,   \* standing, lean
    <<100, 100, 600, 400, 0>>,    \* shallow
    <<90, 90, 600, 400, 0>>,      \* exactly 90
    <<70, 70, 600, 400, 0>>,      \* deep
    <<150, 70, 600, 400, 0>>,     \* one knee deep
    <<100, 100, 620, 380, 0>>,    \* shallow, exactly 0.02 on both sides
    <<100, 100, 600, 400, 50>>,   \* shallow, exactly 0.05
    <<100, 100, 622, 400, 52>>,   \* shallow, valgus and lean at once
    <<70, 70, 600, 378, 0>> }     \* deep with valgus

AbductionPoses ==
  { <<0, 0>>, <<29, 29>>, <<30, 30>>, <<45, 45>>, <<60, 60>>, <<75, 75>>,
    <<76, 76>>, <<90, 90>>, <<90, 100>>, <<90, 106>>, <<120, 120>>, <<120, 0>> }

SquatKeypoints == {11, 12, 23, 24, 25, 26, 27, 28}
AbductionKeypoints == {11, 12, 13, 14, 23, 24}

SquatFrames ==
  {SquatPose(p) : p \in SquatPoses}
  \cup {Dropped(SquatPose(<<100, 100, 600, 400, 0>>), i) : i \in SquatKeypoints \cup {13}}

AbductionFrames ==
  {AbductionPose(p) : p \in AbductionPoses}
  \cup {Dropped(AbductionPose(<<0, 0>>), i) : i \in AbductionKeypoints \cup {25}}

(* ------------------------------ observers ----------------------------- *)
Idle == [phase |-> "idle", base |-> 0, len |-> 0]

\* Squat sequence: "top" after a frame with kneeAngle >= 120 analysed with
\* lastPosition "up", "bottom" while the frames that follow stay below 120,
\* "done" on the first frame back at >= 120.  base and len are repCount and
\* the length of the rep log before the first frame of the sequence.
SquatSeqNext(seq, an, call) ==
  IF call.outcome # "returned" THEN Idle
  ELSE IF call.result.angles.knee >= HalfDeg(120)
  THEN IF seq.phase = "bottom" THEN [seq EXCEPT !.phase = "done"]
       ELSE IF seq.phase = "top" THEN seq
       ELSE IF an.lastPosition = "up"
       THEN [phase |-> "top", base |-> an.repCount, len |-> Len(an.repData)]
       ELSE Idle
  ELSE IF seq.phase \in {"top", "bottom"} THEN [seq EXCEPT !.phase = "bottom"]
       ELSE Idle

\* Abduction sequence: "raised" from a frame with average > 75 while the
\* frames that follow stay >= 30, "done" on the first frame below 30.
AbductionSeqNext(seq, an, call) ==
  IF call.outcome # "returned" THEN Idle
  ELSE IF call.result.angles.shoulder < HalfDeg(30)
  THEN IF seq.phase = "raised" THEN [seq EXCEPT !.phase = "done"] ELSE Idle
  ELSE IF seq.phase = "raised" THEN seq
  ELSE IF call.result.angles.shoulder > HalfDeg(75)
  THEN [phase |-> "raised", base |-> an.repCount, len |-> Len(an.repData)]
  ELSE Idle

RaisedSinceNext(raised, an, call) ==
  IF call.outcome # "returned" THEN raised
  ELSE IF call.analyzer.repCount # an.repCount THEN FALSE
  ELSE raised \/ call.result.angles.shoulder > HalfDeg(75)

\* The end-to-end squat scenario: clean frames at 100, 70 and 150 degrees,
\* the first of them analysed by an analyzer as constructed.
ScenarioNext(sc, an, landmarks) ==
  IF an = NewAnalyzer /\ landmarks = SquatPose(<<100, 100, 600, 400, 0>>) THEN 1
  ELSE IF sc = 1 /\ landmarks = SquatPose(<<70, 70, 600, 400, 0>>) THEN 2
  ELSE IF sc = 2 /\ landmarks = SquatPose(<<150, 150, 600, 400, 0>>) THEN 3
  ELSE 0

Last(s) == s[Len(s)]

(* ------------------------------ actions ------------------------------- *)
InitAnalyzer ==
  /\ analyzer = NewAnalyzer
  /\ outcome = "none"
  /\ result = NoResult
  /\ op = "new"
  /\ squatSeq = Idle
  /\ abdSeq = Idle
  /\ raisedSince = FALSE
  /\ scenario = 0

Bounded(call) ==
  /\ call.analyzer.frameCount <= MaxFrames
  /\ call.analyzer.repCount <= MaxReps

SquatStep(call, landmarks) ==
  /\ Bounded(call)
  /\ analyzer' = call.analyzer
  /\ outcome' = call.outcome
  /\ result' = call.result
  /\ op' = "analyzeSquat"
  /\ squatSeq' = SquatSeqNext(squatSeq, analyzer, call)
  /\ abdSeq' = Idle
  /\ raisedSince' = (raisedSince /\ call.analyzer.repCount = analyzer.repCount)
  /\ scenario' = ScenarioNext(scenario, analyzer, landmarks)

AbductionStep(call) ==
  /\ Bounded(call)
  /\ analyzer' = call.analyzer
  /\ outcome' = call.outcome
  /\ result' = call.result
  /\ op' = "analyzeShoulderAbduction"
  /\ squatSeq' = Idle
  /\ abdSeq' = AbductionSeqNext(abdSeq, analyzer, call)
  /\ raisedSince' = RaisedSinceNext(raisedSince, analyzer, call)
  /\ scenario' = 0

ResetStep ==
  /\ analyzer' = ResetAnalyzer(analyzer)
  /\ outcome' = "none"
  /\ result' = NoResult
  /\ op' = "reset"
  /\ squatSeq' = Idle
  /\ abdSeq' = Idle
  /\ raisedSince' = FALSE
  /\ scenario' = 0

(* --------------------------- the LiveSession page --------------------- *)
ZeroMetrics ==
  [repCount |-> 0, currentScore |-> 0, feedback |-> <<>>,
   angles |-> [knee |-> 0, hip |-> 0, shoulder |-> 0], isInPosition |-> FALSE]

\* The argument of updateMetrics in detectPose.
MetricsOf(analysis) ==
  [repCount |-> analysis.repCount,
   currentScore |-> analysis.score,
   feedback |-> [i \in 1..Len(analysis.feedback) |-> analysis.feedback[i].message],
   angles |-> analysis.angles,
   isInPosition |-> analysis.isInPosition]

\* usePoseStore's initial state (null is "null").
InitialStore ==
  [isCameraActive |-> FALSE, videoElement |-> "null", currentExercise |-> "null",
   exerciseConfig |-> "null", metrics |-> ZeroMetrics, showFeedback |-> TRUE]

\* usePoseStore.reset: camera, video element and feedback settings are kept.
ResetStore(s) ==
  [s EXCEPT !.currentExercise = "null", !.exerciseConfig = "null",
            !.metrics = ZeroMetrics]

\* The dependency array of the detection-loop effect (updateMetrics and
\* feedbackVolume never change here).
Deps ==
  <<store.isCameraActive, store.videoElement, store.currentExercise,
    store.exerciseConfig, isProcessing, store.showFeedback>>

\* React runs pending effects before it handles a user event.
EffectsFlushed == effect.deps = Deps

\* The early return of the effect: nothing to run the loop on.
LoopGuardFails ==
  \/ ~store.isCameraActive
  \/ store.videoElement = "null"
  \/ store.currentExercise = "null"
  \/ store.exerciseConfig = "null"

\* What a detectPose closure captured from its render.
Closure ==
  [isProcessing |-> isProcessing, currentExercise |-> store.currentExercise]

\* cancelAnimationFrame(handle)
Cancel(callbacks, handle) == {cb \in callbacks : cb.id # handle}

\* The page after mount: both effects have run once, the first created the
\* detector and the analyzer, the second returned early (no camera yet).
InitLive ==
  /\ store = InitialStore
  /\ isProcessing = FALSE
  /\ effect = [deps |-> <<FALSE, "null", "null", "null", FALSE, TRUE>>, cleanup |-> FALSE]
  /\ animationFrameRef = 0
  /\ pending = {}
  /\ inflight = {}
  /\ nextHandle = 1
  /\ analysedInSession = FALSE

AnalyzerIdle ==
  /\ UNCHANGED <<analyzer, outcome, result, squatSeq, abdSeq, raisedSince, scenario>>

\* ExerciseSelector.handleSelectExercise, shown while no exercise is selected.
SelectExercise(exercise) ==
  /\ store.currentExercise = "null"
  /\ EffectsFlushed
  /\ store' = [store EXCEPT !.currentExercise = exercise, !.exerciseConfig = exercise]
  /\ analysedInSession' = FALSE
  /\ op' = "handleSelectExercise"
  /\ AnalyzerIdle
  /\ UNCHANGED <<isProcessing, effect, animationFrameRef, pending, inflight, nextHandle>>
  /\ UNCHANGED auxVars

\* CameraFeed (mounted while an exercise is selected): its mount effect
\* registers the video element, startCamera and stopCamera switch the camera.
SetVideoElement ==
  /\ store.currentExercise # "null"
  /\ store.videoElement = "null"
  /\ store' = [store EXCEPT !.videoElement = "video"]
  /\ op' = "setVideoElement"
  /\ AnalyzerIdle
  /\ UNCHANGED <<isProcessing, effect, animationFrameRef, pending, inflight,
                 nextHandle, analysedInSession>>
  /\ UNCHANGED auxVars

SetCameraActive(active) ==
  /\ store.currentExercise # "null"
  /\ store.videoElement # "null"
  /\ EffectsFlushed
  /\ store.isCameraActive # active
  /\ store' = [store EXCEPT !.isCameraActive = active]
  /\ op' = "setCameraActive"
  /\ AnalyzerIdle
  /\ UNCHANGED <<isProcessing, effect, animationFrameRef, pending, inflight,
                 nextHandle, analysedInSession>>
  /\ UNCHANGED auxVars

ToggleFeedback ==
  /\ store.currentExercise # "null"
  /\ EffectsFlushed
  /\ store' = [store EXCEPT !.showFeedback = ~@]
  /\ op' = "toggleFeedback"
  /\ AnalyzerIdle
  /\ UNCHANGED <<isProcessing, effect, animationFrameRef, pending, inflight,
                 nextHandle, analysedInSession>>
  /\ UNCHANGED auxVars

\* A render whose dependencies differ from the last run's: the previous
\* cleanup (if the last run left one) cancels animationFrameRef.current, then
\* the effect body returns early or requests the first frame of a new loop.
RunLoopEffect ==
  /\ ~EffectsFlushed
  /\ nextHandle <= MaxHandles
  /\ IF LoopGuardFails
     THEN /\ effect' = [deps |-> Deps, cleanup |-> FALSE]
          /\ pending' = IF effect.cleanup THEN Cancel(pending, animationFrameRef)
                        ELSE pending
          /\ UNCHANGED <<animationFrameRef, nextHandle>>
     ELSE /\ effect' = [deps |-> Deps, cleanup |-> TRUE]
          /\ pending' = (IF effect.cleanup THEN Cancel(pending, animationFrameRef)
                         ELSE pending)
                        \cup {[id |-> nextHandle, closure |-> Closure]}
          /\ animationFrameRef' = nextHandle
          /\ nextHandle' = nextHandle + 1
  /\ op' = "effect"
  /\ AnalyzerIdle
  /\ UNCHANGED <<store, isProcessing, inflight, analysedInSession>>
  /\ UNCHANGED auxVars

\* An animation frame runs a requested detectPose up to its await: return at
\* once if the closure saw isProcessing, else setIsProcessing(true) and wait
\* for the detector.
DetectPoseStart(cb) ==
  /\ cb \in pending
  /\ pending' = pending \ {cb}
  /\ IF cb.closure.isProcessing
     THEN UNCHANGED <<isProcessing, inflight>>
     ELSE /\ isProcessing' = TRUE
          /\ inflight' = inflight \cup {cb}
  /\ op' = "detectPose"
  /\ AnalyzerIdle
  /\ UNCHANGED <<store, effect, animationFrameRef, nextHandle, analysedInSession>>
  /\ UNCHANGED auxVars

\* finally { setIsProcessing(false) } and the request for the next frame.
DetectPoseFinish(cb) ==
  /\ nextHandle <= MaxHandles
  /\ inflight' = inflight \ {cb}
  /\ isProcessing' = FALSE
  /\ pending' = pending \cup {[id |-> nextHandle, closure |-> cb.closure]}
  /\ animationFrameRef' = nextHandle
  /\ nextHandle' = nextHandle + 1
  /\ UNCHANGED effect

\* The detector found no pose (null or an empty landmark list).
DetectPoseNoPose(cb) ==
  /\ cb \in inflight
  /\ DetectPoseFinish(cb)
  /\ op' = "detectPose"
  /\ AnalyzerIdle
  /\ UNCHANGED <<store, analysedInSession>>
  /\ UNCHANGED auxVars

\* The detector returned a pose: analyse it for the exercise the closure
\* captured, publish the metrics unless the analysis threw (the catch logs).
DetectPoseAnalyse(cb, landmarks) ==
  /\ cb \in inflight
  /\ DetectPoseFinish(cb)
  /\ IF cb.closure.currentExercise = "squat"
     THEN SquatStep(analyzeSquat(analyzer, landmarks), landmarks)
     ELSE AbductionStep(analyzeShoulderAbduction(analyzer, landmarks))
  /\ store' = IF outcome' = "returned"
              THEN [store EXCEPT !.metrics = MetricsOf(result')]
              ELSE store
  /\ analysedInSession' = TRUE
  /\ UNCHANGED auxVars

\* handleBackToSelection: the store's reset, then cancelAnimationFrame.
BackToSelection ==
  /\ store.currentExercise # "null"
  /\ EffectsFlushed
  /\ store' = ResetStore(store)
  /\ pending' = Cancel(pending, animationFrameRef)
  /\ op' = "handleBackToSelection"
  /\ AnalyzerIdle
  /\ UNCHANGED <<isProcessing, effect, animationFrameRef, inflight, nextHandle,
                 analysedInSession>>
  /\ UNCHANGED auxVars

\* Frames the detector delivers during a session.
LiveFrames(exercise) ==
  IF exercise = "squat"
  THEN {SquatPose(<<100, 100, 600, 400, 0>>), SquatPose(<<150, 150, 600, 400, 0>>),
        Dropped(SquatPose(<<100, 100, 600, 400, 0>>), 27)}
  ELSE {AbductionPose(<<0, 0>>), AbductionPose(<<90, 90>>),
        Dropped(AbductionPose(<<0, 0>>), 13)}

NextLive ==
  \/ \E exercise \in {"squat", "shoulderAbduction"} : SelectExercise(exercise)
  \/ SetVideoElement
  \/ \E active \in BOOLEAN : SetCameraActive(active)
  \/ ToggleFeedback
  \/ RunLoopEffect
  \/ \E cb \in pending : DetectPoseStart(cb)
  \/ \E cb \in inflight : DetectPoseNoPose(cb)
  \/ \E cb \in inflight :
       \E landmarks \in LiveFrames(cb.closure.currentExercise) :
         DetectPoseAnalyse(cb, landmarks)
  \/ BackToSelection

(* ---------------------- functions applied on their own ---------------- *)
InitAux ==
  /\ fn = "none"
  /\ args = <<>>
  /\ value = 0
  /\ held = "none"

\* One application: the function, its arguments and what it returned.
Apply(f, a, v) ==
  /\ fn = "none"
  /\ fn' = f
  /\ args' = a
  /\ value' = v
  /\ UNCHANGED <<analyzerVars, liveVars, held>>

\* The analyzer after n analyzeSquat calls in all, the later ones on frames
\* that changed nothing but the frame counter.
AfterFrames(an, n) == [an EXCEPT !.frameCount = n]

\* Analyzer states a call can find: as constructed, in the bottom of a squat
\* (reached with good form, with caving knees and a forward lean, and again
\* after a first rep), after a squat rep, after an abduction frame, after an
\* abduction rep, and close to the 30th and the 60th frame.
InBottom == analyzeSquat(NewAnalyzer, SquatPose(<<100, 100, 600, 400, 0>>)).analyzer
AfterRep == analyzeSquat(InBottom, SquatPose(<<150, 150, 600, 400, 0>>)).analyzer
AfterAbduction == analyzeShoulderAbduction(AfterRep, AbductionPose(<<120, 0>>)).analyzer

PoorBottom == analyzeSquat(NewAnalyzer, SquatPose(<<100, 100, 622, 400, 52>>)).analyzer
SecondBottom == analyzeSquat(AfterRep, SquatPose(<<100, 100, 600, 400, 0>>)).analyzer
AfterAbductionRep == analyzeShoulderAbduction(AfterRep, AbductionPose(<<0, 0>>)).analyzer

PriorAnalyzers ==
  {NewAnalyzer, InBottom, AfterRep, AfterAbduction,
   PoorBottom, SecondBottom, AfterAbductionRep,
   AfterFrames(InBottom, 28), AfterFrames(InBottom, 29), AfterFrames(AfterRep, 59)}

\* Points around a vertex: the eight compass directions at two distances, and
\* the vertex itself.
Compass == {<<dx, dy>> : dx \in {-1000, 0, 1000}, dy \in {-1000, 0, 1000}}
           \cup {<<dx, dy>> : dx \in {-2000, 0, 2000}, dy \in {-2000, 0, 2000}}

Vertices == {Landmark(0, 0), Landmark(500, 500)}

Offset(p, d) == Landmark(p.x + d[1], p.y + d[2])

\* Feedback lists of up to MaxMessages messages with the priorities the
\* analyzer uses; the message text tells the position in the list.
Priorities == 0..4

MessageNames == <<"first", "second", "third", "fourth", "fifth", "sixth">>

FeedbackOf(priorities) ==
  [i \in 1..Len(priorities) |->
     FeedbackMessage("warning", MessageNames[i], priorities[i])]

FeedbackLists ==
  UNION {{FeedbackOf(ps) : ps \in [1..n -> Priorities]} : n \in 0..MaxMessages}

ApplyCalculateAngle(point1, point2, point3) ==
  Apply("calculateAngle", <<point1, point2, point3>>,
        calculateAngle(point1, point2, point3))

ApplyAnalyzeSquat(an, landmarks) ==
  Apply("analyzeSquat", <<an, landmarks>>, analyzeSquat(an, landmarks))

ApplyAnalyzeShoulderAbduction(an, landmarks) ==
  Apply("analyzeShoulderAbduction", <<an, landmarks>>,
        analyzeShoulderAbduction(an, landmarks))

\* feedback.sort((a, b) => b.priority - a.priority).slice(0, 2)
ApplySortSlice(feedback) ==
  Apply("sort.slice", <<feedback>>, slice2(sortByPriority(feedback)))

ApplyReset(an) == Apply("reset", <<an>>, ResetAnalyzer(an))

\* A frame sequence fed to one analyzer, frame after frame: the analyzer left.
RECURSIVE analyzeSquatFrames(_, _)
analyzeSquatFrames(an, frames) ==
  IF frames = <<>> THEN an
  ELSE analyzeSquatFrames(analyzeSquat(an, Head(frames)).analyzer, Tail(frames))

RECURSIVE analyzeShoulderAbductionFrames(_, _)
analyzeShoulderAbductionFrames(an, frames) ==
  IF frames = <<>> THEN an
  ELSE analyzeShoulderAbductionFrames(
         analyzeShoulderAbduction(an, Head(frames)).analyzer, Tail(frames))

\* Frames that swing between two poses: a, b, a, ... b, a with `swings` times b.
Alternate(a, b, swings) ==
  [i \in 1..(2 * swings + 1) |-> IF i % 2 = 1 THEN a ELSE b]

\* Knee angles one degree either side of the 120 degree threshold; arm angles
\* either side of the 75 and of the 30 degree threshold.
SquatJitter ==
  {<<SquatPose(<<p[1], p[1], 600, 400, 0>>), SquatPose(<<p[2], p[2], 600, 400, 0>>)>> :
     p \in {<<121, 119>>, <<119, 121>>, <<120, 119>>}}

AbductionJitter ==
  {<<AbductionPose(<<p[1], p[1]>>), AbductionPose(<<p[2], p[2]>>)>> :
     p \in {<<75, 76>>, <<76, 75>>, <<30, 29>>, <<29, 30>>}}

ApplyAnalyzeSquatFrames(an, frames) ==
  Apply("analyzeSquat.frames", <<an, frames>>, analyzeSquatFrames(an, frames))

ApplyAnalyzeShoulderAbductionFrames(an, frames) ==
  Apply("analyzeShoulderAbduction.frames", <<an, frames>>,
        analyzeShoulderAbductionFrames(an, frames))

\* Two frames in a row for the same exercise.
ApplyAnalyzeSquatPair(an, first, second) ==
  Apply("analyzeSquat.pair", <<an, <<first, second>>>>,
        analyzeSquatFrames(an, <<first, second>>))

ApplyAnalyzeShoulderAbductionPair(an, first, second) ==
  Apply("analyzeShoulderAbduction.pair", <<an, <<first, second>>>>,
        analyzeShoulderAbductionFrames(an, <<first, second>>))

\* EXERCISE_CONFIGS; valgusLimit and leanLimit in thousandths like the
\* coordinates, the other thresholds in degrees.
EXERCISE_CONFIGS ==
  [squat |->
     [name |-> "Squat", targetReps |-> 10,
      thresholds |-> [depth |-> 90, valgusLimit |-> 20, leanLimit |-> 50]],
   shoulderAbduction |->
     [name |-> "Shoulder Abduction", targetReps |-> 15,
      thresholds |-> [romMin |-> 80, romMax |-> 100, symmetryLimit |-> 15]]]

\* ExerciseConfig values a caller can pass: the two of EXERCISE_CONFIGS and
\* configs that differ from them in one threshold.
ExerciseConfigs ==
  {EXERCISE_CONFIGS.squat, EXERCISE_CONFIGS.shoulderAbduction}
  \cup {[EXERCISE_CONFIGS.squat EXCEPT !.thresholds.depth = 100],
        [EXERCISE_CONFIGS.squat EXCEPT !.thresholds.valgusLimit = 40],
        [EXERCISE_CONFIGS.squat EXCEPT !.thresholds.leanLimit = 100],
        [EXERCISE_CONFIGS.shoulderAbduction EXCEPT !.thresholds.romMin = 60],
        [EXERCISE_CONFIGS.shoulderAbduction EXCEPT !.thresholds.romMax = 120],
        [EXERCISE_CONFIGS.shoulderAbduction EXCEPT !.thresholds.symmetryLimit = 30]}

analyzeSquatDepthFromConfig(an, landmarks, config) ==
  IF analyzeSquat(an, landmarks).outcome = "returned"
     /\ "depth" \in DOMAIN config.thresholds
  THEN [analyzeSquat(an, landmarks) EXCEPT
          !.result.isInPosition =
             analyzeSquat(an, landmarks).result.angles.knee
               < HalfDeg(config.thresholds.depth + 30)]
  ELSE analyzeSquat(an, landmarks)

\* The analyze methods with both their parameters: neither body mentions
\* config, the thresholds are the literals of the code.
analyzeSquatWithConfig(an, landmarks, config) == analyzeSquat(an, landmarks)

analyzeShoulderAbductionWithConfig(an, landmarks, config) ==
  analyzeShoulderAbduction(an, landmarks)

ApplyAnalyzeSquatWithConfig(an, landmarks, config) ==
  Apply("analyzeSquat.config", <<an, landmarks, config>>,
        analyzeSquatWithConfig(an, landmarks, config))

ApplyAnalyzeShoulderAbductionWithConfig(an, landmarks, config) ==
  Apply("analyzeShoulderAbduction.config", <<an, landmarks, config>>,
        analyzeShoulderAbductionWithConfig(an, landmarks, config))

NextPure ==
  \/ fn = "none" /\ \E point2 \in Vertices : \E d1 \in Compass, d3 \in Compass :
       ApplyCalculateAngle(Offset(point2, d1), point2, Offset(point2, d3))
  \/ fn = "none" /\ \E an \in PriorAnalyzers : \E landmarks \in SquatFrames :
       ApplyAnalyzeSquat(an, landmarks)
  \/ fn = "none" /\ \E an \in PriorAnalyzers : \E landmarks \in AbductionFrames :
       ApplyAnalyzeShoulderAbduction(an, landmarks)
  \/ fn = "none" /\ \E feedback \in FeedbackLists : ApplySortSlice(feedback)
  \/ fn = "none" /\ \E an \in PriorAnalyzers : ApplyReset(an)
  \/ fn = "none" /\ \E an \in PriorAnalyzers : \E pair \in SquatJitter :
       ApplyAnalyzeSquatFrames(an, Alternate(pair[1], pair[2], Oscillations))
  \/ fn = "none" /\ \E an \in PriorAnalyzers : \E pair \in AbductionJitter :
       ApplyAnalyzeShoulderAbductionFrames(an, Alternate(pair[1], pair[2], Oscillations))
  \/ fn = "none" /\ \E an \in PriorAnalyzers : \E landmarks \in SquatFrames :
       \E config \in ExerciseConfigs : ApplyAnalyzeSquatWithConfig(an, landmarks, config)
  \/ fn = "none" /\ \E an \in PriorAnalyzers : \E landmarks \in AbductionFrames :
       \E config \in ExerciseConfigs :
         ApplyAnalyzeShoulderAbductionWithConfig(an, landmarks, config)
  \/ fn = "none" /\ \E an \in PriorAnalyzers : \E first \in SquatFrames, second \in SquatFrames :
       ApplyAnalyzeSquatPair(an, first, second)
  \/ fn = "none" /\ \E an \in PriorAnalyzers :
       \E first \in AbductionFrames, second \in AbductionFrames :
         ApplyAnalyzeShoulderAbductionPair(an, first, second)

(* ------------------- a caller holding the rep log --------------------- *)
\* getRepData() returns this.repData itself, so the array the caller holds is
\* the analyzer's own until reset() assigns the analyzer a new one.
CallerGetRepData ==
  /\ held' = "log"
  /\ op' = "getRepData"
  /\ UNCHANGED <<analyzer, outcome, result, squatSeq, abdSeq, raisedSince, scenario>>
  /\ UNCHANGED <<liveVars, pureVars>>

\* A RepData the caller made up.
CallerEntry ==
  [repIndex |-> 0, angles |-> [knee |-> 0, hip |-> 0, shoulder |-> 0],
   flags |-> <<>>, score |-> 0]

\* What the analyzer's rep log is after the caller changed the array it holds.
Aliased(an, changed) ==
  IF held = "log" THEN [an EXCEPT !.repData = changed] ELSE an

Pushed(log) == Append(log, CallerEntry)

Popped(log) == SubSeq(log, 1, Len(log) - 1)

Edited(log) == [i \in 1..Len(log) |-> IF i = 1 THEN [log[i] EXCEPT !.score = 0] ELSE log[i]]

CallerStep(name, an) ==
  /\ held # "none"
  /\ Len(an.repData) <= MaxReps + 1
  /\ analyzer' = an
  /\ op' = name
  /\ UNCHANGED <<outcome, result, squatSeq, abdSeq, raisedSince, scenario>>
  /\ UNCHANGED <<liveVars, pureVars, held>>

\* held.push(entry), held.pop(), held[0].score = 0
CallerPush == CallerStep("caller.push", Aliased(analyzer, Pushed(analyzer.repData)))

CallerPop == CallerStep("caller.pop", Aliased(analyzer, Popped(analyzer.repData)))

CallerEdit == CallerStep("caller.edit", Aliased(analyzer, Edited(analyzer.repData)))

\* The analyzer's own calls while a caller holds the array.
HeldAfterReset == IF held = "log" THEN "detached" ELSE held

CallerFrames ==
  {SquatPose(<<100, 100, 600, 400, 0>>), SquatPose(<<150, 150, 600, 400, 0>>)}

CallerAnalyzeSquat(landmarks) ==
  /\ SquatStep(analyzeSquat(analyzer, landmarks), landmarks)
  /\ UNCHANGED <<liveVars, pureVars, held>>

CallerReset ==
  /\ ResetStep
  /\ held' = HeldAfterReset
  /\ UNCHANGED <<liveVars, pureVars>>

NextCaller ==
  \/ \E landmarks \in CallerFrames : CallerAnalyzeSquat(landmarks)
  \/ CallerReset
  \/ CallerGetRepData
  \/ CallerPush
  \/ CallerPop
  \/ CallerEdit

(* ----------------------- the analyzer on its own ---------------------- *)
\* Any sequence of analyzeSquat, analyzeShoulderAbduction and reset calls on
\* one analyzer; the page does not move.
Init == InitAnalyzer /\ InitLive /\ InitAux

CallAnalyzeSquat(landmarks) ==
  /\ SquatStep(analyzeSquat(analyzer, landmarks), landmarks)
  /\ UNCHANGED liveVars
  /\ UNCHANGED auxVars

CallAnalyzeShoulderAbduction(landmarks) ==
  /\ AbductionStep(analyzeShoulderAbduction(analyzer, landmarks))
  /\ UNCHANGED liveVars
  /\ UNCHANGED auxVars

CallReset == ResetStep /\ UNCHANGED liveVars /\ UNCHANGED auxVars

Next ==
  \/ \E landmarks \in SquatFrames : CallAnalyzeSquat(landmarks)
  \/ \E landmarks \in AbductionFrames : CallAnalyzeShoulderAbduction(landmarks)
  \/ CallReset

Spec == Init /\ [][Next]_vars

\* The page driving the analyzer from its detection loop.
SpecLive == Init /\ [][NextLive]_vars


\* Each function applied once to inputs drawn from the sets above.
SpecPure == Init /\ [][NextPure]_vars

\* The analyzer and a caller that keeps what getRepData() returned.
SpecCaller == Init /\ [][NextCaller]_vars

(* ------------------------------ properties ---------------------------- *)
\* C1: a squat frame sequence that starts at the top (kneeAngle >= 120 with
\* lastPosition "up"), stays below 120 for one or more frames and returns to
\* >= 120 has raised repCount by exactly 1 and appended exactly one RepData,
\* whose repIndex is the new repCount.
C1_SquatSequenceCountsOneRep ==
  squatSeq.phase = "done" =>
    /\ analyzer.repCount = squatSeq.base + 1
    /\ Len(getRepData(analyzer)) = squatSeq.len + 1
    /\ Last(getRepData(analyzer)).repIndex = analyzer.repCount

C1_Witness ==
  /\ squatSeq.phase = "done"
  /\ squatSeq.base > 0
  /\ op = "analyzeSquat"

\* C2: a fresh analyzer fed clean squat frames at 100, 70 and 150 degrees
\* ends with repCount 1 and one RepData whose flags list is empty.
C2_ScenarioRepHasNoFlags ==
  scenario = 3 =>
    /\ analyzer.repCount = 1
    /\ Len(getRepData(analyzer)) = 1
    /\ getRepData(analyzer)[1].flags = <<>>

\* C3: an abduction frame counts a rep only if a frame with average shoulder
\* angle > 75 was analysed since the previous count, reset() or construction.
C3_RepOnlyAfterRaise ==
  [][(op' = "analyzeShoulderAbduction" /\ analyzer'.repCount = analyzer.repCount + 1)
       => raisedSince]_vars

\* C4: an abduction frame sequence that starts with average > 75, stays >= 30
\* and ends with one frame below 30 has raised repCount by exactly 1.
C4_AbductionSequenceCountsOneRep ==
  abdSeq.phase = "done" => analyzer.repCount = abdSeq.base + 1

C4_Witness ==
  /\ abdSeq.phase = "done"
  /\ abdSeq.base > 0
  /\ op = "analyzeShoulderAbduction"

\* C5: an abduction frame whose average shoulder angle lies in [30, 75]
\* changes neither repCount nor lastPosition.
C5_MidRangeFrameChangesNothing ==
  [][(/\ op' = "analyzeShoulderAbduction"
      /\ outcome' = "returned"
      /\ result'.angles.shoulder >= HalfDeg(30)
      /\ result'.angles.shoulder <= HalfDeg(75))
       => (/\ analyzer'.repCount = analyzer.repCount
           /\ analyzer'.lastPosition = analyzer.lastPosition)]_vars

C5_Witness ==
  /\ op = "analyzeShoulderAbduction"
  /\ outcome = "returned"
  /\ result.angles.shoulder = HalfDeg(30)
  /\ analyzer.lastPosition = "up"
  /\ analyzer.repCount > 0

\* C6: an analyze call on a frame with an absent keypoint raises no exception
\* and returns metrics.
C6_NoExceptionOnAbsentKeypoint ==
  op \in {"analyzeSquat", "analyzeShoulderAbduction"} => outcome = "returned"

\* C8: the RepData appended by analyzeSquat carries the score and the knee
\* and hip angles that the same call returns.
C8_RepCarriesFrameValues ==
  [][(op' = "analyzeSquat" /\ Len(analyzer'.repData) = Len(analyzer.repData) + 1)
       => (/\ Last(analyzer'.repData).score = result'.score
           /\ Last(analyzer'.repData).angles.knee = result'.angles.knee
           /\ Last(analyzer'.repData).angles.hip = result'.angles.hip)]_vars

\* C9: the rep log has exactly one entry per counted repetition.
C9_RepLogLengthIsRepCount == Len(getRepData(analyzer)) = analyzer.repCount

\* C10: currentScore is an integer between 0 and 100.
C10_ScoreInRange == analyzer.currentScore \in 0..100

C10_Witness ==
  /\ op = "analyzeSquat"
  /\ outcome = "returned"
  /\ Len(result.feedback) = 2
  /\ analyzer.currentScore = 55

\* C7: when an exercise has been selected and no frame of the session has
\* been analysed yet, the analyzer is in its reset state.
C7_AnalyzerFreshAtSessionStart ==
  (store.currentExercise # "null" /\ ~analysedInSession) =>
    /\ analyzer.repCount = 0
    /\ getRepData(analyzer) = <<>>
    /\ analyzer.frameCount = 0
    /\ analyzer.lastPosition = "up"

\* The feedback list a returned call generated before sorting and slicing.
Generated ==
  CASE fn = "sort.slice" -> args[1]
    [] fn = "analyzeSquat" ->
         SquatFeedback(SquatSignals(getKeyLandmarks(args[2])), args[1].frameCount + 1)
    [] fn = "analyzeShoulderAbduction" ->
         AbductionFeedback(AbductionSignals(getKeyLandmarks(args[2])))

Returned == IF fn = "sort.slice" THEN value ELSE value.result.feedback

\* Position of entry k of a list in descending priority order, equal
\* priorities in list order.
Rank(feedback, k) ==
  1 + Cardinality({j \in 1..Len(feedback) :
                     \/ feedback[j].priority > feedback[k].priority
                     \/ feedback[j].priority = feedback[k].priority /\ j < k})

\* C11: the returned feedback holds the entries of the generated list that
\* rank first and second by descending priority, ties in insertion order,
\* and nothing else.
C11_FeedbackIsTopTwo ==
  (\/ fn = "sort.slice"
   \/ fn \in {"analyzeSquat", "analyzeShoulderAbduction"} /\ value.outcome = "returned")
  => /\ Len(Returned) = Min2(2, Len(Generated))
     /\ \A r \in 1..Len(Returned) :
          \E k \in 1..Len(Generated) :
            Rank(Generated, k) = r /\ Returned[r] = Generated[k]

C11_Witness ==
  /\ fn = "sort.slice"
  /\ [i \in 1..Len(args[1]) |-> args[1][i].priority] = <<3, 1, 4, 2>>
  /\ [i \in 1..Len(value) |-> value[i].priority] = <<4, 3>>

\* C12: reset() from any analyzer state leaves repCount 0, currentScore 0, an
\* empty rep log, frameCount 0 and lastPosition "up", and a second reset()
\* changes nothing more.
C12_ResetZeroesAndIsIdempotent ==
  fn = "reset" =>
    /\ value.repCount = 0
    /\ value.currentScore = 0
    /\ getRepData(value) = <<>>
    /\ value.frameCount = 0
    /\ value.lastPosition = "up"
    /\ ResetAnalyzer(value) = value

C12_Witness ==
  /\ fn = "reset"
  /\ args[1].repCount > 0
  /\ getRepData(args[1]) # <<>>
  /\ args[1].currentScore > 0
  /\ args[1].frameCount > 0

\* C13: a frame sequence that only swings by a degree or two across one
\* threshold (120 for the knee, 75 or 30 for the arms) counts fewer
\* repetitions than it has swings.
C13_JitterCountsNoRepPerSwing ==
  fn \in {"analyzeSquat.frames", "analyzeShoulderAbduction.frames"} =>
    value.repCount - args[1].repCount < Oscillations

\* C14: the score analyzeSquat returns is 100, less 15 for a knee angle in
\* [90, 120), less 20 for valgus on either side, less 10 for shoulder and hip
\* midpoints more than 0.05 apart, floored at 0, whatever the analyzer held
\* from earlier frames.
C14_SquatScoreFormula ==
  (fn = "analyzeSquat" /\ value.outcome = "returned") =>
    LET kl == getKeyLandmarks(args[2])
        knee == value.result.angles.knee
        depth == IF knee >= HalfDeg(90) /\ knee < HalfDeg(120) THEN 15 ELSE 0
        valgus == IF leftValgus(kl) \/ rightValgus(kl) THEN 20 ELSE 0
        lean == IF Abs((kl.leftShoulder.x + kl.rightShoulder.x) \div 2
                       - (kl.leftHip.x + kl.rightHip.x) \div 2) > 50
                THEN 10 ELSE 0
    IN value.result.score = Max2(0, 100 - depth - valgus - lean)

C14_Witness ==
  /\ fn = "analyzeSquat"
  /\ value.outcome = "returned"
  /\ value.result.score = 55
  /\ args[1].lastPosition = "down"
  /\ args[1].currentScore = 85

\* C15: the score analyzeShoulderAbduction returns is 100, less 15 for an
\* average below 75 or 10 for an average above 105, less 20 for arms more
\* than 15 degrees apart, less 10 for an elbow above its shoulder, floored
\* at 0; the success message costs nothing.
C15_AbductionScoreFormula ==
  (fn = "analyzeShoulderAbduction" /\ value.outcome = "returned") =>
    LET kl == getKeyLandmarks(args[2])
        left == calculateAngle(kl.leftElbow, kl.leftShoulder, kl.leftHip)
        right == calculateAngle(kl.rightElbow, kl.rightShoulder, kl.rightHip)
        avg == value.result.angles.shoulder
        range == IF avg < HalfDeg(90 - 15) THEN 15
                 ELSE IF avg > HalfDeg(90 + 15) THEN 10 ELSE 0
        symmetry == IF Abs(left - right) > HalfDeg(15) THEN 20 ELSE 0
        hiking == IF \/ kl.leftElbow.y < kl.leftShoulder.y
                     \/ kl.rightElbow.y < kl.rightShoulder.y
                  THEN 10 ELSE 0
    IN value.result.score = Max2(0, 100 - range - symmetry - hiking)

C15_Witness ==
  /\ fn = "analyzeShoulderAbduction"
  /\ value.outcome = "returned"
  /\ value.result.score = 55
  /\ args[1].currentScore = 100

InfoMessage == FeedbackMessage("info", "Looking good! Keep it controlled", 0)

ValgusMessage ==
  FeedbackMessage("error", "Push your knees out - don't let them cave in", 4)

\* C17: analyzeSquat signals valgus exactly when the left knee is 0.02 or
\* more to the right of the left ankle or the right knee is 0.02 or more to
\* the left of the right ankle.
C17_ValgusWhenKneeInsideAnkle ==
  (fn = "analyzeSquat" /\ value.outcome = "returned") =>
    LET kl == getKeyLandmarks(args[2])
        feedback == value.result.feedback
    IN (\E i \in 1..Len(feedback) : feedback[i] = ValgusMessage)
       <=> (\/ kl.leftKnee.x >= kl.leftAnkle.x + 20
            \/ kl.rightKnee.x <= kl.rightAnkle.x - 20)

\* C20: calculateAngle returns an angle in [0, 180]: 180 for points on
\* opposite rays from the vertex, 0 for points on the same ray, 90 for
\* perpendicular rays, also where the raw difference is a reflex angle.
C20_AngleInHalfTurn ==
  fn = "calculateAngle" =>
    LET d1 == <<args[1].x - args[2].x, args[1].y - args[2].y>>
        d3 == <<args[3].x - args[2].x, args[3].y - args[2].y>>
        dot == d1[1] * d3[1] + d1[2] * d3[2]
        cross == d1[1] * d3[2] - d1[2] * d3[1]
        rays == d1 # <<0, 0>> /\ d3 # <<0, 0>>
    IN /\ value \in 0..HalfDeg(180)
       /\ (rays /\ cross = 0 /\ dot < 0) => value = HalfDeg(180)
       /\ (rays /\ cross = 0 /\ dot > 0) => value = 0
       /\ (rays /\ dot = 0) => value = HalfDeg(90)

C20_Witness ==
  /\ fn = "calculateAngle"
  /\ args = <<Landmark(-1000, -1000), Landmark(0, 0), Landmark(-1000, 1000)>>
  /\ value = HalfDeg(90)

\* detectPose loops that will go on: invocations between the isProcessing
\* guard and the finally block, and requested callbacks that will pass the
\* guard (a callback whose closure saw isProcessing returns at once).
LoopsAlive ==
  Cardinality(inflight) + Cardinality({cb \in pending : ~cb.closure.isProcessing})

\* C18: at most one detectPose invocation is between its isProcessing guard
\* and its finally block, and at most one detectPose loop is alive.
C18_AtMostOneInFlight ==
  /\ Cardinality(inflight) <= 1
  /\ LoopsAlive <= 1

\* C19: nothing the caller does with the array getRepData() returned changes
\* the rep log the analyzer holds.
C19_CallerCannotChangeRepLog ==
  [][op' \in {"caller.push", "caller.pop", "caller.edit"}
       => getRepData(analyzer') = getRepData(analyzer)]_vars

\* The call applied was an analyzeSquat call that appended a RepData.
SquatAppended ==
  /\ fn = "analyzeSquat"
  /\ Len(getRepData(value.analyzer)) = Len(getRepData(args[1])) + 1

\* C21: the flags of the RepData analyzeSquat appends are those of the
\* down->up frame alone: "knee_valgus" iff valgus is detected on that frame,
\* "excessive_lean" iff its lean exceeds 0.05, "shallow_squat" iff its knee
\* angle is at least 90; the frames that came before have no effect.
C21_FlagsAreThoseOfTheRisingFrame ==
  SquatAppended =>
    LET kl == getKeyLandmarks(args[2])
        flags == Last(getRepData(value.analyzer)).flags
        Flagged(flag) == \E i \in 1..Len(flags) : flags[i] = flag
    IN /\ Flagged("knee_valgus")
          <=> (\/ kl.leftKnee.x < kl.leftAnkle.x - 20
               \/ kl.rightKnee.x > kl.rightAnkle.x + 20)
       /\ Flagged("excessive_lean")
          <=> Abs((kl.leftShoulder.x + kl.rightShoulder.x)
                  - (kl.leftHip.x + kl.rightHip.x)) > 2 * 50
       /\ Flagged("shallow_squat") <=> value.result.angles.knee >= HalfDeg(90)
       /\ \A i \in 1..Len(flags) :
            flags[i] \in {"knee_valgus", "excessive_lean", "shallow_squat"}

\* A rep whose bottom frame had caving knees and a forward lean, completed on
\* a frame that leans and has the knees in line.
C21_Witness ==
  /\ SquatAppended
  /\ args[1] = PoorBottom
  /\ Last(getRepData(value.analyzer)).flags = <<"shallow_squat", "excessive_lean">>

\* The analyzer the applied call or frame sequence left.
AnalyzerLeft ==
  IF fn \in {"analyzeSquat", "analyzeShoulderAbduction"}
  THEN value.analyzer ELSE value

\* C22: an analyze call keeps the entries of the rep log as they are and in
\* order; one call adds at most one entry, at the end; the repIndex values
\* of the log increase strictly, also over several calls in a row and with
\* abduction reps counted in between.
C22_RepLogIsAppendOnly ==
  fn \in {"analyzeSquat", "analyzeShoulderAbduction",
          "analyzeSquat.frames", "analyzeShoulderAbduction.frames"} =>
    LET old == getRepData(args[1])
        new == getRepData(AnalyzerLeft)
    IN /\ Len(new) >= Len(old)
       /\ SubSeq(new, 1, Len(old)) = old
       /\ fn \in {"analyzeSquat", "analyzeShoulderAbduction"}
          => Len(new) <= Len(old) + 1
       /\ \A i \in 1..Len(new) : \A j \in 1..Len(new) :
            i < j => new[i].repIndex < new[j].repIndex

\* A squat rep appended behind an earlier entry, an abduction rep having been
\* counted in between: the log reads repIndex 1, 3.
C22_Witness ==
  /\ fn = "analyzeSquat"
  /\ args[1] = AfterAbductionRep
  /\ Len(getRepData(args[1])) = 1
  /\ Len(getRepData(value.analyzer)) = 2
  /\ Last(getRepData(value.analyzer)).repIndex = 3

\* C23: while no exercise is selected (before the first selection and after
\* handleBackToSelection) no analyze call is made and no metrics are
\* published, so the store's metrics are at their zero values, and once no
\* detectPose invocation is in flight no requested callback is left that
\* would pass the isProcessing guard and carry a loop on.
C23_AnalysisStopsAfterBack ==
  store.currentExercise = "null" =>
    /\ op \notin {"analyzeSquat", "analyzeShoulderAbduction"}
    /\ store.metrics = ZeroMetrics
    /\ inflight = {} => \A cb \in pending : cb.closure.isProcessing

\* C24: every entry of the rep log carries the flag "shallow_squat" and a
\* knee angle of at least 120, whatever depth the rep reached at its bottom.
C24_EveryRepIsFlaggedShallow ==
  \A i \in 1..Len(getRepData(analyzer)) :
    /\ \E k \in 1..Len(getRepData(analyzer)[i].flags) :
         getRepData(analyzer)[i].flags[k] = "shallow_squat"
    /\ getRepData(analyzer)[i].angles.knee >= HalfDeg(120)

\* A rep that went down to a knee angle of 70 and came up with good form.
C24_Witness ==
  /\ scenario = 3
  /\ op = "analyzeSquat"
  /\ Len(getRepData(analyzer)) = 1
  /\ getRepData(analyzer)[1].flags = <<"shallow_squat">>

\* C25: on a frame in bottom position analyzeSquat generates a depth message
\* (the priority 3 warning or the priority 1 success) before the periodic
\* check, so that check never finds the list empty there and no returned
\* feedback holds the priority 0 info message, on the 30th and 60th frame
\* as on any other.
C25_InfoMessageNeverReturned ==
  (fn = "analyzeSquat" /\ value.outcome = "returned") =>
    LET generated == SquatFormFeedback(SquatSignals(getKeyLandmarks(args[2])))
        feedback == value.result.feedback
    IN /\ value.result.angles.knee < HalfDeg(120)
          => \E i \in 1..Len(generated) :
               /\ generated[i].priority \in {1, 3}
               /\ generated[i].type \in {"warning", "success"}
       /\ \A i \in 1..Len(feedback) :
            /\ feedback[i] # InfoMessage
            /\ feedback[i].priority # 0

\* The 30th frame, in bottom position with good depth and good form: the
\* success message alone comes back.
C25_Witness ==
  /\ fn = "analyzeSquat"
  /\ value.outcome = "returned"
  /\ value.analyzer.frameCount = 30
  /\ value.result.angles.knee < HalfDeg(90)
  /\ value.result.feedback = <<FeedbackMessage("success", "Great depth!", 1)>>

\* C26: a call that fails on an absent keypoint fails before the rep
\* counting and the score assignment: repCount, lastPosition, currentScore
\* and the rep log are as before the call; analyzeShoulderAbduction leaves
\* the whole analyzer as it was, analyzeSquat has added 1 to frameCount and
\* changed nothing else.
C26_FailedCallChangesNoRepState ==
  (fn \in {"analyzeSquat", "analyzeShoulderAbduction"} /\ value.outcome = "TypeError") =>
    /\ value.analyzer.repCount = args[1].repCount
    /\ value.analyzer.lastPosition = args[1].lastPosition
    /\ value.analyzer.currentScore = args[1].currentScore
    /\ getRepData(value.analyzer) = getRepData(args[1])
    /\ fn = "analyzeShoulderAbduction" => value.analyzer = args[1]
    /\ fn = "analyzeSquat"
       => /\ value.analyzer.frameCount = args[1].frameCount + 1
          /\ value.analyzer = [args[1] EXCEPT !.frameCount = value.analyzer.frameCount]

\* A bottom frame without its right shoulder, given to an analyzer that
\* stands up: with the shoulder present the call would have gone "down".
C26_Witness ==
  /\ fn = "analyzeSquat"
  /\ value.outcome = "TypeError"
  /\ args[1] = NewAnalyzer
  /\ IsUndefined(args[2][12])
  /\ value.analyzer.frameCount = 1
  /\ value.analyzer.lastPosition = "up"

C28_RepCountStepsByOneAndFlips ==
  /\ fn \in {"analyzeSquat", "analyzeShoulderAbduction"}
     => /\ AnalyzerLeft.repCount - args[1].repCount \in {0, 1}
        /\ AnalyzerLeft.repCount = args[1].repCount + 1
           => AnalyzerLeft.lastPosition # args[1].lastPosition
  /\ fn \in {"analyzeSquat.pair", "analyzeShoulderAbduction.pair",
              "analyzeSquat.frames", "analyzeShoulderAbduction.frames"}
     => /\ AnalyzerLeft.repCount >= args[1].repCount
        /\ AnalyzerLeft.repCount - args[1].repCount <= (Len(args[2]) + 1) \div 2

\* Two standing frames in a row given to an analyzer in the bottom of a
\* squat: the first completes the rep, the second counts nothing.
C28_Witness ==
  /\ fn = "analyzeSquat.pair"
  /\ args[1] = InBottom
  /\ args[2] = <<SquatPose(<<150, 150, 600, 400, 0>>), SquatPose(<<150, 150, 600, 400, 0>>)>>
  /\ AnalyzerLeft.repCount = args[1].repCount + 1
  /\ Len(getRepData(AnalyzerLeft)) = 1
====
